---- MODULE Spec2Model ----
(***************************************************************************)
(* A model of scripts/gen-shaping-tests.py: the conversion of harfbuzz     *)
(* shaping test files into Rust test modules.  Strings are TLA+ strings    *)
(* (sequences of characters); the Python string methods the script uses    *)
(* are defined below as the script uses them.                              *)
(***************************************************************************)
EXTENDS Naturals, Sequences, FiniteSets, TLC

(***************************************************************************)
(* Python's str methods                                                    *)
(***************************************************************************)

\* s[i-1:i]: the i-th character of s, as a string
Char(s, i) == SubSeq(s, i, i)

\* s.startswith(p)
StartsWith(s, p) == Len(s) >= Len(p) /\ SubSeq(s, 1, Len(p)) = p

\* s.endswith(p)
EndsWith(s, p) == Len(s) >= Len(p) /\ SubSeq(s, Len(s) - Len(p) + 1, Len(s)) = p

\* s.find(p, i-1) + 1: the first position >= i at which p occurs in s, 0 if none
Find(s, p, i) ==
    LET hits == { k \in i..(Len(s) - Len(p) + 1) :
                    Char(s, k) = Char(p, 1) /\ SubSeq(s, k, k + Len(p) - 1) = p }
    IN  IF hits = {} THEN 0 ELSE CHOOSE k \in hits : \A j \in hits : k <= j

\* p in s
Contains(str, sub) ==
    \E s \in {str}, p \in {sub} :
        \/ p = ""
        \/ \E c \in {Char(p, 1)}, n \in {Len(p)} :
              \E k \in 1..(Len(s) - n + 1) :
                  Char(s, k) = c /\ SubSeq(s, k, k + n - 1) = p

\* s.replace(old, new): every non-overlapping occurrence, leftmost first, one pass
RECURSIVE Replace(_, _, _)
Replace(s, old, new) ==
    LET i == Find(s, old, 1)
    IN  IF i = 0 THEN s
        ELSE SubSeq(s, 1, i - 1) \o new
                 \o Replace(SubSeq(s, i + Len(old), Len(s)), old, new)

\* s.split(sep): the pieces between the occurrences of sep (one piece for "")
RECURSIVE Split(_, _)
Split(s, sep) ==
    LET i == Find(s, sep, 1)
    IN  IF i = 0 THEN <<s>>
        ELSE <<SubSeq(s, 1, i - 1)>> \o Split(SubSeq(s, i + Len(sep), Len(s)), sep)

\* s.count(p)
Count(s, p) == Len(Split(s, p)) - 1

Whitespace == {" ", "\n", "\t", "\r"}

RECURSIVE LStrip(_)
LStrip(s) ==
    IF Len(s) > 0 /\ Char(s, 1) \in Whitespace THEN LStrip(SubSeq(s, 2, Len(s))) ELSE s

RECURSIVE RStrip(_)
RStrip(s) ==
    IF Len(s) > 0 /\ Char(s, Len(s)) \in Whitespace
    THEN RStrip(SubSeq(s, 1, Len(s) - 1)) ELSE s

\* s.strip()
Strip(s) == RStrip(LStrip(s))

Upper == "ABCDEFGHIJKLMNOPQRSTUVWXYZ"
Lowercase == "abcdefghijklmnopqrstuvwxyz"

LowerChar(c) ==
    LET i == Find(Upper, c, 1) IN IF i = 0 THEN c ELSE Char(Lowercase, i)

\* s.lower()
RECURSIVE Lower(_)
Lower(s) ==
    IF Len(s) = 0 THEN "" ELSE LowerChar(Char(s, 1)) \o Lower(SubSeq(s, 2, Len(s)))

\* The printable ASCII characters below and above the backquote (code 96)
AsciiLow == " !\"#$%&'()*+,-./0123456789:;<=>?@ABCDEFGHIJKLMNOPQRSTUVWXYZ[\\]^_"
AsciiHigh == "abcdefghijklmnopqrstuvwxyz{|}~"

\* ord(c)
Ord(c) ==
    LET i == Find(AsciiLow, c, 1)
    IN  IF i # 0 THEN 31 + i ELSE 96 + Find(AsciiHigh, c, 1)

\* a < b, as Python compares strings
RECURSIVE StrLess(_, _)
StrLess(a, b) ==
    IF Len(b) = 0 THEN FALSE
    ELSE IF Len(a) = 0 THEN TRUE
    ELSE IF Char(a, 1) = Char(b, 1)
         THEN StrLess(SubSeq(a, 2, Len(a)), SubSeq(b, 2, Len(b)))
    ELSE Ord(Char(a, 1)) < Ord(Char(b, 1))

\* sorted(S) of a set of strings
RECURSIVE Sorted(_)
Sorted(S) ==
    IF S = {} THEN <<>>
    ELSE LET m == CHOOSE x \in S : \A y \in S \ {x} : StrLess(x, y)
         IN  <<m>> \o Sorted(S \ {m})

\* os.path.split(p)[1]: what follows the last "/"
RECURSIVE Basename(_)
Basename(p) ==
    LET i == Find(p, "/", 1)
    IN  IF i = 0 THEN p ELSE Basename(SubSeq(p, i + 1, Len(p)))

Digits == "0123456789"

\* str(n)
RECURSIVE Decimal(_)
Decimal(n) ==
    IF n < 10 THEN Char(Digits, n + 1)
    ELSE Decimal(n \div 10) \o Char(Digits, (n % 10) + 1)

\* f"{n:03d}"
Pad3(n) ==
    LET d == Decimal(n)
    IN  IF Len(d) >= 3 THEN d ELSE SubSeq("000", 1, 3 - Len(d)) \o d

(***************************************************************************)
(* The script's tables and pure functions                                  *)
(***************************************************************************)

\* harfbuzz test files that will be ignored
IGNORE_TESTS ==
    { "macos.tests", "coretext.tests", "directwrite.tests", "uniscribe.tests",
      "arabic-fallback-shaping.tests" }

\* harfbuzz test cases that will be ignored
IGNORE_TEST_CASES ==
    { "simple_002", "collections_001", "collections_002", "collections_003",
      "collections_006", "macos_002", "macos_122", "glyph_flags_002",
      "colr_011", "colr_014", "colr_021", "color_fonts_001", "color_fonts_002",
      "color_fonts_003", "vertical_016" }

\* The roots main() hands down: sys.argv[1], the script's grandparent directory,
\* and the reference binary under the first
HbDir == "/hb"
RbRoot == "/rb"
HbShapeExe == HbDir \o "/builddir/util/hb-shape"

\* root.joinpath(p): an absolute p replaces the root
JoinPath(root, p) ==
    IF StartsWith(p, "/") THEN p
    ELSE IF p = "" THEN root
    ELSE root \o "/" \o p

update_font_path(tests_name, fontfile) ==
    IF ~StartsWith(fontfile, "/")
    THEN "tests/fonts/" \o tests_name \o "/" \o Replace(fontfile, "../fonts/", "")
    ELSE fontfile

\* The loop of convert_unicodes over enumerate(tokens), from 0-based index i
RECURSIVE UnicodesLoop(_, _)
UnicodesLoop(tokens, i) ==
    IF i >= Len(tokens) THEN ""
    ELSE LET u == tokens[i + 1]
             brk == IF i > 0 /\ i % 10 = 0 THEN "\\\n             " ELSE ""
             hex == IF StartsWith(u, "U+") THEN SubSeq(u, 3, Len(u)) ELSE u
         IN  brk \o "\\u{" \o hex \o "}" \o UnicodesLoop(tokens, i + 1)

convert_unicodes(unicodes) == UnicodesLoop(Split(unicodes, ","), 0)

\* prune_test_options with the strip() done before the replacements
prune_strip_first(options) ==
    LET o0 == Strip(options)
        o1 == Replace(o0, "--shaper=ot", "")
        o2 == Replace(Replace(o1, " --font-funcs=ft", ""), "--font-funcs=ft", "")
        o3 == Replace(Replace(o2, " --font-funcs=ot", ""), "--font-funcs=ot", "")
        o4 == Replace(o3, "--font-size=1000", "")
    IN  Replace(o4, "--not-found-variation-selector-glyph=1000000",
                    "--not-found-variation-selector-glyph=64000")

prune_test_options(options) ==
    LET o1 == Replace(options, "--shaper=ot", "")
        o2 == Replace(Replace(o1, " --font-funcs=ft", ""), "--font-funcs=ft", "")
        o3 == Replace(Replace(o2, " --font-funcs=ot", ""), "--font-funcs=ot", "")
        o4 == Replace(o3, "--font-size=1000", "")
        o5 == Replace(o4, "--not-found-variation-selector-glyph=1000000",
                          "--not-found-variation-selector-glyph=64000")
    IN  Strip(o5)

\* test_name of convert_test_file
TestName(file_name, idx) ==
    Lower(Replace(Replace(file_name, ".tests", ""), "-", "_") \o "_" \o Pad3(idx))

\* SkipCase with the exclusion list never consulted
NeverSkip(test_name) == FALSE

\* if test_name in IGNORE_TEST_CASES: return ""
SkipCase(test_name) == test_name \in IGNORE_TEST_CASES

\* RunsReference with the comparison turned round
RunsOnWildcard(glyphs_expected) == glyphs_expected = "*"

\* if glyphs_expected != "*": run hb-shape
RunsReference(glyphs_expected) == glyphs_expected # "*"

\* StripBrackets without the [1:-1]
KeepBrackets(stdout) == Strip(stdout)

\* glyphs_expected.strip()[1:-1]
StripBrackets(stdout) ==
    LET t == Strip(stdout) IN SubSeq(t, 2, Len(t) - 1)

\* AddsFont without its test of the font reference
AddsAnyFont(fontfile) == TRUE

\* if not fontfile.startswith("/"): fonts.add(...)
AddsFont(fontfile) == ~StartsWith(fontfile, "/")

\* options_rs: the option string as emitted
OptionsRs(options) == Replace(Replace(options, "\"", "\\\""), " --single-par", "")

\* final_string of convert_test_file
FinalString(file_name, test_name, fontfile_rs, unicodes_rs, options_rs, glyphs_expected) ==
    LET body ==
          IF glyphs_expected = "*"
          THEN "#[test]\n"
                 \o "fn " \o test_name \o "() {\n"
                 \o "    shape(\n"
                 \o "        \"" \o fontfile_rs \o "\",\n"
                 \o "        \"" \o unicodes_rs \o "\",\n"
                 \o "        \"" \o options_rs \o "\",\n"
                 \o "    );\n"
                 \o "}\n"
                 \o "\n"
          ELSE "#[test]\n"
                 \o "fn " \o test_name \o "() {\n"
                 \o "    assert_eq!(\n"
                 \o "        shape(\n"
                 \o "            \"" \o fontfile_rs \o "\",\n"
                 \o "            \"" \o unicodes_rs \o "\",\n"
                 \o "            \"" \o options_rs \o "\",\n"
                 \o "        ),\n"
                 \o "        \"" \o glyphs_expected \o "\"\n"
                 \o "    );\n"
                 \o "}\n"
                 \o "\n"
    IN  IF file_name = "macos.tests"
        THEN "#[cfg(target_os = \"macos\")]\n" \o body
        ELSE body

\* What one call of convert_test_file does: whether it raised, the text it
\* returned, the names it added to fonts, and the command line it ran (<<>>: none)
Outcome(raised, text, added, argv) ==
    [raised |-> raised, text |-> text, added |-> added, argv |-> argv]

\* Raise with the exception swallowed: the record is skipped and the run goes on
Swallow(argv) == Outcome(FALSE, "", {}, argv)

\* An exception leaves convert_test_file (the unpacking of a split, or
\* check=True on a non-zero exit): nothing returned, nothing added
Raise(argv) == Outcome(TRUE, "", {}, argv)

\* subprocess.run(..., check=True): hb is what the reference binary does when
\* run, its exit code and its stdout
convert_test_file(root_dir, tests_name, file_name, idx, data, custom, hb) ==
    IF StartsWith(data, "@") THEN Outcome(FALSE, "", {}, <<>>)
    ELSE
    LET fields == Split(data, ";") IN
    IF Len(fields) # 4 THEN Raise(<<>>)
    ELSE
    LET hashed == Contains(fields[1], "@")
        parts == Split(fields[1], "@")
    IN
    IF hashed /\ Len(parts) # 2 THEN Raise(<<>>)
    ELSE
    LET fontfile == Replace(IF hashed THEN parts[1] ELSE fields[1], "\\ ", " ")
        unicodes == fields[3]
        fontfile_rs == IF custom THEN fontfile
                       ELSE update_font_path(tests_name, fontfile)
        unicodes_rs == convert_unicodes(unicodes)
        test_name == TestName(file_name, idx)
    IN
    IF SkipCase(test_name) THEN Outcome(FALSE, "", {}, <<>>)
    ELSE
    LET options == prune_test_options(fields[2])
        options_list == IF Len(options) # 0 THEN Split(options, " ") ELSE <<>>
        abs_font_path ==
            IF custom THEN JoinPath(root_dir, fontfile_rs)
            ELSE JoinPath(root_dir \o "/test/shape/data/" \o tests_name \o "/tests",
                          fontfile)
        argv == <<HbShapeExe>> \o options_list
                    \o <<abs_font_path, "--unicodes=" \o unicodes>>
        runs == RunsReference(fields[4])
    IN
    IF runs /\ hb.rc # 0 THEN Raise(argv)
    ELSE
    LET glyphs_expected == IF runs THEN StripBrackets(hb.stdout) ELSE fields[4]
        added == IF AddsFont(fontfile) THEN {Basename(fontfile_rs)} ELSE {}
    IN  Outcome(FALSE,
                FinalString(file_name, test_name, fontfile_rs, unicodes_rs,
                            OptionsRs(options), glyphs_expected),
                added,
                IF runs THEN argv ELSE <<>>)

(***************************************************************************)
(* The run: main(), convert_test_folder, convert_test_files,               *)
(* read_test_cases                                                         *)
(***************************************************************************)

\* Bound of the corpus a run reads: directory entries listed plus lines read
MaxInput == 4

\* File names a test directory may hold
FileNames == { "simple.tests", "Simple.tests", "macos.tests", "notes.txt" }

\* Lines a test file may hold
Lines ==
    { "fontA.ttf;--shaper=ot;U+0041;[A=0+500]",
      "../fonts/fontA.ttf;--font-funcs=ot;U+0041,U+0078;*",
      "sub/fontC.ttf;;0041;*",
      "/Lib/A\\ B.ttc@1f;--font-funcs=ft;U+0041;[B=0+9]",
      "@font-funcs=ot",
      "# comment",
      "fontA.ttf;U+0041;*" }

\* What a run of the reference binary may do
HbResults ==
    { [rc |-> 1, stdout |-> ""],
      [rc |-> 0, stdout |-> "[A=0+520]\n"] }

\* test_dir_names of main
test_dir_names == <<"aots", "in-house", "text-rendering-tests">>

\* The steps of main: one per built-in group, the macOS step, the custom step
MacosStep == Len(test_dir_names) + 1
CustomStep == Len(test_dir_names) + 2

\* tests_name_snake_case: the name of a group's module file
ModuleFile(name) == Replace(name, "-", "_")

GroupNames == { test_dir_names[i] : i \in 1..Len(test_dir_names) } \cup {"macos", "custom"}
ModuleFiles == { ModuleFile(g) : g \in GroupNames }

VARIABLES
    platform,       \* sys.platform
    at,             \* the step of main being executed
    pc,             \* "main", "read" (the loops of convert_test_files),
                    \*   "copy" (the copy loop of main), "done", "failed"
    tests_name,     \* arguments of the running convert_test_files
    root_dir,
    custom,
    listing,        \* os.listdir(tests_dir) of the running convert_test_folder
    files,
    fi,             \* position of `file` in files
    idx,            \* idx of read_test_cases
    rust_code,
    fonts,
    dir_used_fonts, \* main's variable
    written,        \* ../tests/shaping/<module>.rs, "" while there is none
    copied,         \* ../tests/fonts/<group>: the names copied there
    runs,           \* invocations of the reference binary so far
    hb_args,        \* the command line of the latest
    hb_rc,          \* and its exit code
    last,           \* the latest call of convert_test_file: file_name, idx, data
    read,           \* the calls of convert_test_file in the running pass
    inputLeft,      \* what the bound leaves of the corpus
    arg,            \* the argument of the function applied on its own
    pieces,         \* the number of pieces arg is made of
    results         \* what the function returned, application after application

\* The state of a run of the script
runVars == << platform, at, pc, tests_name, root_dir, custom, listing, files, fi,
              idx, rust_code, fonts, dir_used_fonts, written, copied, runs,
              hb_args, hb_rc, last, read, inputLeft >>

\* The state of a function applied on its own
fnVars == << arg, pieces, results >>

vars == << runVars, fnVars >>

NoCall == [file_name |-> "", idx |-> 0, data |-> ""]

\* The script before main()
InitRun ==
    /\ at = 1
    /\ pc = "main"
    /\ tests_name = ""
    /\ root_dir = ""
    /\ custom = FALSE
    /\ listing = {}
    /\ files = <<>>
    /\ fi = 1
    /\ idx = 0
    /\ rust_code = ""
    /\ fonts = {}
    /\ dir_used_fonts = {}
    /\ written = [m \in ModuleFiles |-> ""]
    /\ copied = [g \in GroupNames |-> {}]
    /\ runs = 0
    /\ hb_args = <<>>
    /\ hb_rc = 0
    /\ last = NoCall
    /\ read = <<>>
    /\ inputLeft = MaxInput

InitFn ==
    /\ arg = ""
    /\ pieces = 0
    /\ results = <<>>

Init ==
    /\ platform \in {"darwin", "linux"}
    /\ InitRun
    /\ InitFn

\* KeepFile without the file-exclusion list
KeepTests(f) == EndsWith(f, ".tests")

\* files = [f for f in files if f.endswith(".tests") and f not in IGNORE_TESTS]
KeepFile(f) == EndsWith(f, ".tests") /\ f \notin IGNORE_TESTS

\* The head of the module: rust_code before the loops
Header(name) ==
    "// WARNING: this file was generated by ../scripts/gen-shaping-tests.py\n"
      \o "\n"
      \o (IF name = "macos" THEN "#[cfg(target_os = \"macos\")]\n" ELSE "")
      \o "use crate::shape;\n"
      \o "\n"

\* The entry of convert_test_files
EnterFiles(root, name, fs, cust) ==
    /\ tests_name' = name
    /\ root_dir' = root
    /\ custom' = cust
    /\ files' = fs
    /\ fi' = 1
    /\ idx' = 0
    /\ rust_code' = Header(name)
    /\ fonts' = {}
    /\ read' = <<>>
    /\ pc' = "read"

\* main, the built-in groups and the custom group: convert_test_folder on a
\* directory holding the entries `dir`
ConvertTestFolder ==
    /\ pc = "main"
    /\ at \in 1..Len(test_dir_names) \cup {CustomStep}
    /\ \E dir \in SUBSET FileNames :
          /\ Cardinality(dir) <= inputLeft
          /\ inputLeft' = inputLeft - Cardinality(dir)
          /\ listing' = dir
          /\ IF at = CustomStep
             THEN EnterFiles(RbRoot, "custom", SelectSeq(Sorted(dir), KeepFile), TRUE)
             ELSE EnterFiles(HbDir, test_dir_names[at],
                             SelectSeq(Sorted(dir), KeepFile), FALSE)
    /\ UNCHANGED << platform, at, dir_used_fonts, written, copied, runs, hb_args,
                    hb_rc, last, fnVars >>

\* main, the macOS step: convert_test_files on macos.tests, on darwin only
ConvertMacos ==
    /\ pc = "main"
    /\ at = MacosStep
    /\ IF platform = "darwin"
       THEN /\ EnterFiles(RbRoot, "macos", <<"macos.tests">>, FALSE)
            /\ listing' = {}
            /\ UNCHANGED at
       ELSE /\ at' = CustomStep
            /\ UNCHANGED << pc, tests_name, root_dir, custom, listing, files, fi,
                            idx, rust_code, fonts, read >>
    /\ UNCHANGED << platform, dir_used_fonts, written, copied, runs, hb_args,
                    hb_rc, last, inputLeft, fnVars >>

\* read_test_cases skips comments and empty lines
Skipped(test) == StartsWith(test, "#") \/ Len(test) = 0

\* One line of the file being read: skipped, or handed to convert_test_file
ReadLine ==
    /\ pc = "read"
    /\ fi <= Len(files)
    /\ inputLeft > 0
    /\ inputLeft' = inputLeft - 1
    /\ \E test \in Lines, hb \in HbResults :
          IF Skipped(test)
          THEN UNCHANGED << pc, idx, rust_code, fonts, runs, hb_args, hb_rc,
                            last, read >>
          ELSE \E call \in {[file_name |-> files[fi], idx |-> idx + 1, data |-> test]},
                  out \in {convert_test_file(root_dir, tests_name, files[fi],
                                             idx + 1, test, custom, hb)} :
                   /\ idx' = idx + 1
                   /\ last' = call
                   /\ read' = Append(read, call)
                   /\ runs' = IF out.argv # <<>> THEN runs + 1 ELSE runs
                   /\ hb_args' = IF out.argv # <<>> THEN out.argv ELSE hb_args
                   /\ hb_rc' = IF out.argv # <<>> THEN hb.rc ELSE hb_rc
                   /\ IF out.raised
                      THEN /\ pc' = "failed"
                           /\ UNCHANGED << rust_code, fonts >>
                      ELSE /\ rust_code' = rust_code \o out.text
                           /\ fonts' = fonts \cup out.added
                           /\ UNCHANGED pc
    /\ UNCHANGED << platform, at, tests_name, root_dir, custom, listing, files,
                    fi, dir_used_fonts, written, copied, fnVars >>

\* The end of the file being read
EndOfFile ==
    /\ pc = "read"
    /\ fi <= Len(files)
    /\ fi' = fi + 1
    /\ idx' = 0
    /\ UNCHANGED << platform, at, pc, tests_name, root_dir, custom, listing,
                    files, rust_code, fonts, dir_used_fonts, written, copied,
                    runs, hb_args, hb_rc, last, read, inputLeft, fnVars >>

\* The end of convert_test_files: the module is written and fonts returned;
\* main keeps them for a built-in group only
WriteModule ==
    /\ pc = "read"
    /\ fi > Len(files)
    /\ written' = [written EXCEPT ![ModuleFile(tests_name)] =
                       SubSeq(rust_code, 1, Len(rust_code) - 1)]
    /\ IF at <= Len(test_dir_names)
       THEN /\ dir_used_fonts' = fonts
            /\ pc' = "copy"
            /\ UNCHANGED at
       ELSE /\ UNCHANGED dir_used_fonts
            /\ pc' = IF at = CustomStep THEN "done" ELSE "main"
            /\ at' = at + 1
    /\ UNCHANGED << platform, tests_name, root_dir, custom, listing, files, fi,
                    idx, rust_code, fonts, copied, runs, hb_args, hb_rc, last,
                    read, inputLeft, fnVars >>

\* One shutil.copy of main's loop over dir_used_fonts; it raises when the
\* corpus lacks the font
CopyFont ==
    /\ pc = "copy"
    /\ \E filename \in dir_used_fonts \ copied[tests_name] :
          \/ /\ copied' = [copied EXCEPT ![tests_name] = @ \cup {filename}]
             /\ UNCHANGED pc
          \/ /\ pc' = "failed"
             /\ UNCHANGED copied
    /\ UNCHANGED << platform, at, tests_name, root_dir, custom, listing, files,
                    fi, idx, rust_code, fonts, dir_used_fonts, written, runs,
                    hb_args, hb_rc, last, read, inputLeft, fnVars >>

\* The end of main's copy loop
EndCopy ==
    /\ pc = "copy"
    /\ dir_used_fonts \subseteq copied[tests_name]
    /\ pc' = "main"
    /\ at' = at + 1
    /\ UNCHANGED << platform, tests_name, root_dir, custom, listing, files, fi,
                    idx, rust_code, fonts, dir_used_fonts, written, copied, runs,
                    hb_args, hb_rc, last, read, inputLeft, fnVars >>

Next ==
    \/ ConvertTestFolder
    \/ ConvertMacos
    \/ ReadLine
    \/ EndOfFile
    \/ WriteModule
    \/ CopyFont
    \/ EndCopy

\* A run of the script on any corpus within the bound, on either platform
Spec == Init /\ [][Next]_vars

(***************************************************************************)
(* prune_test_options and convert_unicodes applied on their own            *)
(***************************************************************************)

\* Bounds of the arguments: options (or pieces of options) in an option string,
\* code points in a code-point list
MaxOptions == 3
MaxTokens == 11

\* The options prune_test_options drops or rewrites
HandledOptions ==
    { "--shaper=ot", "--font-funcs=ft", "--font-funcs=ot", "--font-size=1000",
      "--not-found-variation-selector-glyph=1000000" }

\* What an option string is put together from: the handled options, another
\* option, and two halves of a handled one
OptionPieces == HandledOptions \cup { "--features=liga", "--sha", "per=ot" }

\* What a code-point list is put together from
UnicodeTokens == { "U+0041", "0078" }

\* One more piece of the option string, after a space or right after the text
AddOption ==
    /\ results = <<>>
    /\ pieces < MaxOptions
    /\ pieces' = pieces + 1
    /\ \E p \in OptionPieces, sep \in {" ", ""} :
          arg' = IF pieces = 0 THEN p ELSE arg \o sep \o p
    /\ UNCHANGED << results, runVars >>

\* options = prune_test_options(options), on the argument and then on what
\* it returned
PruneOptions ==
    /\ Len(results) < 2
    /\ results' = Append(results, prune_test_options(IF results = <<>> THEN arg
                                                     ELSE results[1]))
    /\ UNCHANGED << arg, pieces, runVars >>

NextOptions ==
    \/ AddOption
    \/ PruneOptions

InitAlone ==
    /\ platform = "linux"
    /\ InitRun
    /\ InitFn

\* prune_test_options on any option string within the bound, twice
SpecOptions == InitAlone /\ [][NextOptions]_vars

\* One more code point of the list
AddToken ==
    /\ results = <<>>
    /\ pieces < MaxTokens
    /\ pieces' = pieces + 1
    /\ \E u \in UnicodeTokens :
          arg' = IF pieces = 0 THEN u ELSE arg \o "," \o u
    /\ UNCHANGED << results, runVars >>

\* unicodes_rs = convert_unicodes(unicodes)
ConvertUnicodes ==
    /\ results = <<>>
    /\ results' = <<convert_unicodes(arg)>>
    /\ UNCHANGED << arg, pieces, runVars >>

NextUnicodes ==
    \/ AddToken
    \/ ConvertUnicodes

\* convert_unicodes on any code-point list within the bound
SpecUnicodes == InitAlone /\ [][NextUnicodes]_vars

(***************************************************************************)
(* The properties                                                          *)
(***************************************************************************)

\* A line read as the record format reads it
Field(data, k) == Split(data, ";")[k]
IsDirective(data) == StartsWith(data, "@")
FourFields(data) == Len(Split(data, ";")) = 4

\* The font reference of a record: without its @hash, its spaces unescaped
FontOf(data) ==
    LET f == Field(data, 1)
    IN  Replace(IF Contains(f, "@") THEN Split(f, "@")[1] ELSE f, "\\ ", " ")

\* The lines of the corpus, read once: whether a line is a record that parses
\* (no directive, four fields, a font field that splits), its font reference
\* and its expected field
Records ==
    [ d \in Lines |->
        LET parses == /\ ~IsDirective(d)
                      /\ FourFields(d)
                      /\ Count(Field(d, 1), "@") <= 1
        IN  [ parses |-> parses,
              malformed |-> ~IsDirective(d) /\ ~FourFields(d),
              font |-> IF parses THEN FontOf(d) ELSE "",
              expected |-> IF parses THEN Field(d, 4) ELSE "" ] ]

\* The case names of the corpus, computed once: file name and 1-based index
CaseNames ==
    [ f \in FileNames |-> [ i \in 1..MaxInput |-> TestName(f, i) ] ]

\* The case name of a call, and whether the exclusion list holds it
CaseName(call) == CaseNames[call.file_name][call.idx]
Excluded(call) == CaseName(call) \in IGNORE_TEST_CASES

\* A call on a record that is converted: it parses and its case name is not
\* excluded
Converted(call) == Records[call.data].parses /\ ~Excluded(call)

\* The expected field and the font reference of a converted call
Expected(call) == Records[call.data].expected
Font(call) == Records[call.data].font

\* This step is a call of convert_test_file (on last')
Called == read' = Append(read, last')

\* The module names of the groups, computed once
ModuleNames == [ g \in GroupNames |-> ModuleFile(g) ]
Module(g) == ModuleNames[g]

\* The lines of the corpus by name
LiteralA == "fontA.ttf;--shaper=ot;U+0041;[A=0+500]"

\* The module of the running pass is written
PassFinished == tests_name # "" /\ written[Module(tests_name)] # ""

\* C1: a call of convert_test_file on a record whose case name is in
\* IGNORE_TEST_CASES runs no reference binary, adds nothing to fonts and
\* returns no text, and the module the pass writes holds no test function of
\* that record's name.
C1_ExcludedCaseNoEffect ==
    [][ /\ (Called /\ Excluded(last'))
            => /\ runs' = runs
               /\ hb_args' = hb_args
               /\ fonts' = fonts
               /\ rust_code' = rust_code
        /\ written' # written
            => \A i \in 1..Len(read) :
                  Excluded(read[i])
                      => ~Contains(written'[Module(tests_name)],
                                   "fn " \o CaseName(read[i]) \o "()")
      ]_vars

\* C1's case: a pass that met the literal record at simple_002, which would
\* have run the reference binary, and wrote its module
C1_Witness ==
    /\ PassFinished
    /\ \E i \in 1..Len(read) :
          read[i] = [file_name |-> "simple.tests", idx |-> 2, data |-> LiteralA]

\* C2, as claimed: a call runs the reference binary exactly once when its
\* record is a converted one whose expected field is "*", and never otherwise.
C2_RunsOnlyOnWildcard ==
    [][ Called =>
          IF Converted(last') /\ Expected(last') = "*"
          THEN runs' = runs + 1
          ELSE runs' = runs
      ]_vars

\* C2, amended: a call runs the reference binary exactly once when its record
\* is a converted one whose expected field is not "*" (a literal), and never
\* otherwise: never for a wildcard record; no other step runs it.
C2_RunsOnlyOnLiteral ==
    [][ /\ Called =>
             IF Converted(last') /\ Expected(last') # "*"
             THEN runs' = runs + 1
             ELSE runs' = runs
        /\ ~Called => runs' = runs
      ]_vars

\* C2's case: a wildcard record converted without a run, then a literal
\* record with one
C2_Witness ==
    /\ pc = "read"
    /\ Len(read) = 2
    /\ Converted(read[1]) /\ Expected(read[1]) = "*"
    /\ Converted(read[2]) /\ Expected(read[2]) # "*"
    /\ runs = 1

\* The fixture of C3: a built-in group whose directory holds simple.tests, of
\* two records: the literal one and one whose expected field is "*"; the
\* group's module is written
C3_Fixture ==
    /\ at <= Len(test_dir_names)
    /\ files = <<"simple.tests">>
    /\ Len(read) = 2
    /\ read[1] = [file_name |-> "simple.tests", idx |-> 1, data |-> LiteralA]
    /\ read[2].file_name = "simple.tests"
    /\ read[2].idx = 2
    /\ Records[read[2].data].parses
    /\ Expected(read[2]) = "*"
    /\ PassFinished

\* The module of the running pass
C3_Module == written[Module(tests_name)]

\* C3, as claimed: the module holds two test functions, both equality
\* assertions, the first against the stored literal A=0+500.
C3_TwoTestsFirstStoredLiteral ==
    C3_Fixture =>
        /\ Count(C3_Module, "#[test]\n") = 2
        /\ Count(C3_Module, "    assert_eq!(\n") = 2
        /\ Contains(C3_Module, "fn simple_001() {\n")
        /\ Contains(C3_Module, "        \"A=0+500\"\n")

\* C3, amended: the module holds one test function, simple_001, an equality
\* assertion whose expected value is the reference binary's stdout for the
\* first record, stripped of whitespace and brackets, with the options empty
\* and the font under tests/fonts/<group>/; the second record is simple_002,
\* which the exclusion list drops.
C3_OneTestFromReference ==
    C3_Fixture =>
        \E hb \in HbResults :
            /\ hb.rc = 0
            /\ C3_Module =
                 "// WARNING: this file was generated by ../scripts/gen-shaping-tests.py\n"
                   \o "\n"
                   \o "use crate::shape;\n"
                   \o "\n"
                   \o "#[test]\n"
                   \o "fn simple_001() {\n"
                   \o "    assert_eq!(\n"
                   \o "        shape(\n"
                   \o "            \"tests/fonts/" \o tests_name \o "/fontA.ttf\",\n"
                   \o "            \"\\u{0041}\",\n"
                   \o "            \"\",\n"
                   \o "        ),\n"
                   \o "        \"" \o SubSeq(hb.stdout, 2, Len(hb.stdout) - 2) \o "\"\n"
                   \o "    );\n"
                   \o "}\n"

\* C3's case: the fixture, converted and written
C3_Witness == C3_Fixture /\ runs = 1

\* C4, as claimed: no call on a file of IGNORE_TESTS leaves a test function in
\* the module of any pass.
C4_IgnoredFileNoCase ==
    \A i \in 1..Len(read) :
        read[i].file_name \in IGNORE_TESTS
            => ~Contains(rust_code, "fn " \o CaseName(read[i]) \o "()")

\* C4, amended: a pass of convert_test_folder (the built-in groups and the
\* custom group) converts no file of IGNORE_TESTS, so none contributes a case
\* to those modules; the only file of IGNORE_TESTS ever converted is
\* macos.tests, by the macOS step, on darwin.
C4_IgnoredFileOnlyInMacosStep ==
    /\ \A i \in 1..Len(files) :
          files[i] \in IGNORE_TESTS
              => tests_name = "macos" /\ platform = "darwin" /\ files[i] = "macos.tests"
    /\ \A i \in 1..Len(read) :
          read[i].file_name \in IGNORE_TESTS
              => tests_name = "macos" /\ platform = "darwin"
                   /\ read[i].file_name = "macos.tests"

\* C4's case: a directory holding macos.tests beside simple.tests, listed by
\* convert_test_folder, a record of simple.tests converted, the module written
C4_Witness ==
    /\ "macos.tests" \in listing
    /\ files = <<"simple.tests">>
    /\ Len(read) = 1
    /\ Contains(rust_code, "fn simple_001()")
    /\ PassFinished

\* The calls of the running pass on converted records
ConvertedCalls == { i \in 1..Len(read) : Converted(read[i]) }

\* Whether the font reference of a call is absolute
Absolute(call) == StartsWith(Font(call), "/")

\* The font path a call emits: the reference itself in a custom group, else
\* the reference without its "../fonts/" under the group's directory
EmittedFont(call) ==
    IF custom \/ Absolute(call) THEN Font(call)
    ELSE "tests/fonts/" \o tests_name \o "/"
           \o Replace(Font(call), "../fonts/", "")

\* C5, as claimed: when a pass has finished, fonts is the set of the basenames
\* of the font fields of the converted records of a non-custom group, absolute
\* or not, and holds nothing in a custom group.
C5_FontsOfNonCustomRecords ==
    PassFinished =>
        fonts = { Basename(Font(read[i])) : i \in { j \in ConvertedCalls : ~custom } }

\* C5, amended: when a pass finishes, fonts is the set of the basenames of the
\* emitted font paths of its converted records whose reference is not
\* absolute, in a custom group too; when the copy loop of a built-in group
\* ends, every member has been copied; what is copied stays, and nothing is
\* copied for the macos and custom groups.
C5_FontsOfRelativeRecords ==
    [][ /\ written' # written
            => fonts = { Basename(EmittedFont(read[i])) :
                            i \in { j \in ConvertedCalls : ~Absolute(read[j]) } }
        /\ (pc = "copy" /\ pc' = "main")
            => /\ dir_used_fonts = fonts
               /\ copied[tests_name] = dir_used_fonts
        /\ \A g \in GroupNames : copied[g] \subseteq copied'[g]
        /\ copied'["macos"] = {} /\ copied'["custom"] = {}
      ]_vars

\* C5's case: the aots pass converted a record with a relative reference and
\* one with an absolute reference, and its copy loop has ended
C5_Witness ==
    /\ pc = "main"
    /\ at = 2
    /\ copied["aots"] = {"fontA.ttf"}
    /\ \E i \in ConvertedCalls : Absolute(read[i])
    /\ \E i \in ConvertedCalls : ~Absolute(read[i])

\* The call i of the running pass returned its text
Returned(i) == i < Len(read) \/ pc # "failed"

\* C6: two distinct converted records of one pass, each with its test
\* function in the pass's text, have different case names.
C6_UniqueCaseNames ==
    \A i, j \in ConvertedCalls :
        (i # j /\ Returned(i) /\ Returned(j))
            => CaseName(read[i]) # CaseName(read[j])

\* C9: the font path emitted for a record of a non-custom group is
\* tests/fonts/<group>/<basename of the reference> when the reference is not
\* absolute, and the reference itself when it is.
C9_EmittedFontIsBasename ==
    \A i \in ConvertedCalls :
        (~custom /\ Returned(i)) =>
            Contains(rust_code,
                     "\"" \o (IF Absolute(read[i]) THEN Font(read[i])
                              ELSE "tests/fonts/" \o tests_name \o "/"
                                     \o Basename(Font(read[i])))
                          \o "\",\n")

\* The modules in the order of main
C10_Order == <<"aots", "in_house", "text_rendering_tests", "macos", "custom">>

\* C10: a module is written once, after the modules of all groups before it
\* (macos among them exactly on darwin) and before those of all groups after
\* it; a font of a built-in group is copied after that group's module is
\* written and before any later module is; a call on a record that is no
\* directive and has not four fields, or one whose reference binary exits
\* non-zero, fails the run with the module of its pass unwritten; and a
\* failed run takes no further step.
C10_OrderAndAbort ==
    [][ /\ \A k \in 1..Len(C10_Order) :
              written'[C10_Order[k]] # written[C10_Order[k]]
                  => /\ written[C10_Order[k]] = ""
                     /\ C10_Order[k] = "macos" => platform = "darwin"
                     /\ \A j \in 1..(k - 1) :
                           IF C10_Order[j] = "macos"
                           THEN (written[C10_Order[j]] # "") <=> (platform = "darwin")
                           ELSE written[C10_Order[j]] # ""
                     /\ \A j \in (k + 1)..Len(C10_Order) : written[C10_Order[j]] = ""
        /\ \A k \in 1..Len(C10_Order) :
              (\E g \in GroupNames :
                  Module(g) = C10_Order[k] /\ copied'[g] # copied[g])
                  => /\ written[C10_Order[k]] # ""
                     /\ \A j \in (k + 1)..Len(C10_Order) : written[C10_Order[j]] = ""
        /\ ( /\ Called
             /\ \/ Records[last'.data].malformed
                \/ runs' # runs /\ hb_rc' # 0 )
              => /\ pc' = "failed"
                 /\ written[Module(tests_name)] = ""
        /\ pc # "failed"
      ]_vars

\* C10's case: the aots module written, then a reference binary exiting
\* non-zero in the in-house pass: the run has failed
C10_Witness ==
    /\ pc = "failed"
    /\ tests_name = "in-house"
    /\ written["aots"] # ""
    /\ written["in_house"] = ""
    /\ runs = 1
    /\ hb_rc # 0

\* An option string in which every space-separated option is a handled option,
\* whole, or holds no handled option at all
WholeOptions(options) ==
    LET tokens == Split(options, " ")
    IN  \A i \in 1..Len(tokens) :
            \/ tokens[i] \in HandledOptions
            \/ \A h \in HandledOptions : ~Contains(tokens[i], h)

\* C7, as claimed: prune_test_options applied to its own result returns it
\* unchanged, for every option string.
C7_Idempotent ==
    Len(results) = 2 => results[2] = results[1]

\* C7, amended: prune_test_options applied to its own result returns it
\* unchanged, for every option string of space-separated options in which the
\* handled options occur only whole.
C7_IdempotentOnWholeOptions ==
    (Len(results) = 2 /\ WholeOptions(arg)) => results[2] = results[1]

\* C7's case: three whole options, two of them dropped, pruned twice
C7_Witness ==
    /\ arg = "--shaper=ot --features=liga --font-funcs=ft"
    /\ results = <<"--features=liga", "--features=liga">>

\* C8: convert_unicodes returns one \u{...} escape for each code point of the
\* list, and the empty string for the empty list.
C8_EmptyListEmptyString ==
    results # <<>> =>
        /\ Count(results[1], "\\u{") = pieces
        /\ arg = "" => results[1] = ""

====
